---- MODULE Spec2Model ----
(***************************************************************************)
(* Model of grant_tracker.py: the SQLite tables grants, submissions and    *)
(* grant_notes, and the GrantTracker service that writes them.  One action *)
(* per public method; a method's whole body (existence check, writes,      *)
(* commit, re-read for the return value) is one step of Spec.  SpecConc    *)
(* runs one submit call statement by statement against other callers.     *)
(***************************************************************************)
EXTENDS Integers, Sequences, FiniteSets, TLC

VARIABLES
    grants,       \* table grants: its rows, in insertion order
    submissions,  \* table submissions
    grant_notes,  \* table grant_notes
    clock,        \* what datetime.utcnow() returns now
    last,         \* the last call made: method, grant_id argument, outcome
    hist,         \* observer: successful submit and add_note calls per grant
                  \* id; the ids awarded so far; the ids awarded with
                  \* reporting dates so far
    call,         \* the submit call in progress (SpecConc): where it stands, its
                  \* grant_id and Submission, and nops when it last wrote
    nops          \* calls made so far

vars == <<grants, submissions, grant_notes, clock, last, hist, call, nops>>

store == <<grants, submissions, grant_notes>>

\* ------------------------------------------------------------------ bounds
MaxGrants == 2
MaxSubs == 2
MaxNotes == 2
MaxClock == 1
MaxOps == 3
MaxCalls == 4

\* ------------------------------------------------------------ value domains
\* Optional[T]: None is the empty tuple, a present value v is <<v>>.
None == <<>>
Some(v) == <<v>>

\* str(uuid.uuid4()): identifiers are opaque strings.
IdSeq == <<"u1", "u2", "u3", "u4">>

Ids == {IdSeq[i] : i \in DOMAIN IdSeq}

GrantType == {"federal", "state", "private", "foundation"}

GrantStatus == {"identified", "applying", "submitted", "awarded",
                "rejected", "reporting", "closed"}

\* ------------------------------------------------------------------- json
\* json.dumps of a list of strings: the text, as its sequence of tokens.
RECURSIVE JsonItems(_)
JsonItems(xs) ==
    IF xs = <<>> THEN <<>>
    ELSE IF Len(xs) = 1 THEN <<xs[1]>>
    ELSE <<xs[1], ",">> \o JsonItems(Tail(xs))

JsonDumps(xs) == <<"[">> \o JsonItems(xs) \o <<"]">>

\* json.loads of such a text: the items between the brackets, commas dropped.
JsonLoads(text) ==
    LET inner == SubSeq(text, 2, Len(text) - 1)
    IN  [i \in 1..((Len(inner) + 1) \div 2) |-> inner[2 * i - 1]]

\* `xs or []` on an Optional[List]: None and the empty list both give [].
OrEmpty(opt) == IF opt = None THEN <<>> ELSE opt[1]

\* --------------------------------------------------------------- dataclasses
\* Grant(...) as identify builds it: the defaults of the dataclass for the
\* fields identify does not pass.
NewGrant(id, a, now) ==
    [id |-> id, title |-> a.title, funder |-> a.funder, amount |-> a.amount,
     type |-> a.grant_type, purpose |-> a.purpose, deadline |-> a.deadline,
     status |-> "identified",
     requirements |-> OrEmpty(a.requirements),
     reporting_dates |-> <<>>,
     contacts |-> OrEmpty(a.contacts),
     award_amount |-> None, notes |-> "", assigned_to |-> a.assigned_to,
     created_at |-> now, updated_at |-> now]

\* The parameter tuple of identify's INSERT: list fields are json text.
GrantToRow(g) ==
    [g EXCEPT !.requirements = JsonDumps(g.requirements),
              !.reporting_dates = JsonDumps(g.reporting_dates),
              !.contacts = JsonDumps(g.contacts)]

_row_to_grant(row) ==
    [row EXCEPT !.requirements = JsonLoads(row.requirements),
                !.reporting_dates = JsonLoads(row.reporting_dates),
                !.contacts = JsonLoads(row.contacts)]

\* ------------------------------------------------------------------ store
Rows(tbl) == {tbl[i] : i \in DOMAIN tbl}

RowIds(tbl) == {tbl[i].id : i \in DOMAIN tbl}

\* Variant: the id column without its PRIMARY KEY constraint.
PrimaryKeyOkNoConstraint(tbl, id) == TRUE

\* id TEXT PRIMARY KEY: an insert of a used id fails with IntegrityError.
PrimaryKeyOk(tbl, id) == id \notin RowIds(tbl)

\* PRAGMA foreign_keys of the connection: SQLite's default is OFF and
\* GrantDatabase.__init__ never turns it on.
foreign_keys == FALSE

\* grant_id REFERENCES grants(id): checked only when the pragma is on.
ForeignKeyOk(fk, gtbl, gid) == fk => gid \in RowIds(gtbl)

\* The first identifier of IdSeq that is in no row of the table.
Unused(tbl) ==
    LET free == {i \in DOMAIN IdSeq : IdSeq[i] \notin RowIds(tbl)}
    IN  IF free = {} THEN {}
        ELSE {IdSeq[CHOOSE i \in free : \A j \in free : i <= j]}

\* What uuid.uuid4() may return for a new row of the table: an identifier no
\* row has (all such are alike, so one stands for them) or, by collision, one
\* that a row has.
uuid4(tbl) == Unused(tbl) \cup RowIds(tbl)

\* The grant_id arguments a caller may pass: a stored identifier or one
\* that is not stored.
GrantIdArgs(gtbl) == RowIds(gtbl) \cup Unused(gtbl)

\* SELECT * FROM grants WHERE id = ? ... fetchone(), then _row_to_grant or None.
get_grant(gtbl, gid) ==
    IF \E i \in DOMAIN gtbl : gtbl[i].id = gid
    THEN LET i == CHOOSE k \in DOMAIN gtbl :
                      /\ gtbl[k].id = gid
                      /\ \A j \in DOMAIN gtbl : gtbl[j].id = gid => k <= j
         IN  Some(_row_to_grant(gtbl[i]))
    ELSE None

\* What a method returns: a Grant, None, or a raised sqlite3.IntegrityError.
RetGrant(opt) == IF opt = None THEN [kind |-> "None"] ELSE [kind |-> "Grant", val |-> opt[1]]

RetRaise == [kind |-> "IntegrityError"]

Init ==
    /\ grants = <<>>
    /\ submissions = <<>>
    /\ grant_notes = <<>>
    /\ clock = 0
    /\ last = [op |-> "init", gid |-> "", args |-> <<>>, ret |-> [kind |-> "None"]]
    /\ hist = [submits |-> [u \in Ids |-> 0], notes |-> [u \in Ids |-> 0],
               awarded |-> {}, dated |-> {}]
    /\ call = [pc |-> "idle"]
    /\ nops = 0

\* ------------------------------------------------------------------ inputs
\* The argument tuples identify is called with.
IdentifyArgs ==
    { [title |-> "G1", funder |-> "NSF", amount |-> 100, deadline |-> None,
       grant_type |-> "federal", purpose |-> "", requirements |-> None,
       contacts |-> None, assigned_to |-> ""],
      [title |-> "G2", funder |-> "Gates", amount |-> 200, deadline |-> Some(1),
       grant_type |-> "foundation", purpose |-> "tech",
       requirements |-> Some(<<"IRS 501c3", "Budget narrative">>),
       contacts |-> Some(<<"pm">>), assigned_to |-> "bob"] }

\* notes arguments of apply and reject ("" is the default).
ApplyNotesArgs == {"", "n1"}

RejectNotesArgs == {"", "n2"}

AssignedArgs == {"", "carol"}

\* award_amount arguments of award (None is the default).
AwardAmountArgs == {None, Some(0), Some(45), Some(-3)}

\* reporting_dates arguments of award (None is the default).  A date is the
\* day number of its ISO text: "YYYY-MM-DD" texts compare as their days do.
ReportingDatesArgs == {None, Some(<<45, 1>>)}

SubmitArgs ==
    { [notes |-> "", submitted_by |-> "", documents |-> None],
      [notes |-> "sent", submitted_by |-> "Alice",
       documents |-> Some(<<"budget.pdf", "narrative.pdf">>)] }

NoteArgs == { [content |-> "c1", author |-> ""], [content |-> "c2", author |-> "Alice"] }

\* ------------------------------------------------------------- _transition
\* Variant: the status UPDATE also resets award_amount.
TransitionRowClearsAward(row, new_status, notes, now) ==
    [row EXCEPT !.status = new_status, !.updated_at = now,
                !.award_amount = None,
                !.notes = IF notes # "" THEN notes ELSE @]

\* Variant: the notes UPDATE without its `if notes:`.
TransitionRowAlwaysNotes(row, new_status, notes, now) ==
    [row EXCEPT !.status = new_status, !.updated_at = now, !.notes = notes]

\* Variant: the UPDATEs carry AND status NOT IN ('rejected','closed').
TransitionRowKeepsTerminal(row, new_status, notes, now) ==
    IF row.status \in {"rejected", "closed"} THEN row
    ELSE [row EXCEPT !.status = new_status, !.updated_at = now,
                     !.notes = IF notes # "" THEN notes ELSE @]

\* The two UPDATE statements of _transition on one row.
TransitionRow(row, new_status, notes, now) ==
    [row EXCEPT !.status = new_status, !.updated_at = now,
                !.notes = IF notes # "" THEN notes ELSE @]

\* Variant: a strict state machine that refuses to leave rejected or closed.
_transitionStrict(gtbl, gid, new_status, notes, now) ==
    IF \/ get_grant(gtbl, gid) = None
       \/ get_grant(gtbl, gid)[1].status \in {"rejected", "closed"}
    THEN [grants |-> gtbl, ret |-> RetGrant(None)]
    ELSE LET t == [i \in DOMAIN gtbl |->
                     IF gtbl[i].id = gid
                     THEN TransitionRow(gtbl[i], new_status, notes, now)
                     ELSE gtbl[i]]
         IN  [grants |-> t, ret |-> RetGrant(get_grant(t, gid))]

\* _transition: None for an unknown id, else the updates and the re-read row.
_transition(gtbl, gid, new_status, notes, now) ==
    IF get_grant(gtbl, gid) = None
    THEN [grants |-> gtbl, ret |-> RetGrant(None)]
    ELSE LET t == [i \in DOMAIN gtbl |->
                     IF gtbl[i].id = gid
                     THEN TransitionRow(gtbl[i], new_status, notes, now)
                     ELSE gtbl[i]]
         IN  [grants |-> t, ret |-> RetGrant(get_grant(t, gid))]

\* ------------------------------------------------------------------- award
\* Variant: `award_amount or grant.amount`, which drops a supplied 0.
ActualAmountTruthy(award_amount, amount) ==
    IF award_amount # None /\ award_amount[1] # 0 THEN award_amount[1] ELSE amount

\* actual = award_amount if award_amount is not None else grant.amount
ActualAmount(award_amount, amount) ==
    IF award_amount # None THEN award_amount[1] ELSE amount

\* Variant: reporting dates are kept when the call supplies none.
AwardRowKeepDates(row, actual, dates_json, now) ==
    [row EXCEPT !.status = "awarded", !.award_amount = Some(actual),
                !.reporting_dates = IF dates_json = JsonDumps(<<>>) THEN @
                                    ELSE dates_json,
                !.updated_at = now]

\* Variant: the UPDATE of award without updated_at = ?.
AwardRowKeepsUpdatedAt(row, actual, dates_json, now) ==
    [row EXCEPT !.status = "awarded", !.award_amount = Some(actual),
                !.reporting_dates = dates_json]

\* The UPDATE statement of award on one row.
AwardRow(row, actual, dates_json, now) ==
    [row EXCEPT !.status = "awarded", !.award_amount = Some(actual),
                !.reporting_dates = dates_json, !.updated_at = now]

award(gtbl, gid, award_amount, reporting_dates, now) ==
    LET grant == get_grant(gtbl, gid)
    IN  IF grant = None
        THEN [grants |-> gtbl, ret |-> RetGrant(None)]
        ELSE LET actual == ActualAmount(award_amount, grant[1].amount)
                 dates_json == JsonDumps(OrEmpty(reporting_dates))
                 t == [i \in DOMAIN gtbl |->
                         IF gtbl[i].id = gid
                         THEN AwardRow(gtbl[i], actual, dates_json, now)
                         ELSE gtbl[i]]
             IN  [grants |-> t, ret |-> RetGrant(get_grant(t, gid))]

\* ------------------------------------------------------------------ submit
\* Submission(...) as submit builds it, as the row its INSERT stores.
NewSubmission(id, gid, a, submitted_at, created_at) ==
    [id |-> id, grant_id |-> gid, submitted_at |-> submitted_at,
     notes |-> a.notes, submitted_by |-> a.submitted_by,
     documents |-> JsonDumps(OrEmpty(a.documents)), created_at |-> created_at]

\* The INSERT INTO submissions and its commit: the constraints the table declares.
SubmissionInsertOk(stbl, gtbl, fk, sub) ==
    PrimaryKeyOk(stbl, sub.id) /\ ForeignKeyOk(fk, gtbl, sub.grant_id)

\* Variant: the status is written before the submission row is inserted.
submitStatusFirst(gtbl, stbl, fk, gid, sub_id, a, t1, t2, t3) ==
    IF get_grant(gtbl, gid) = None
    THEN [grants |-> gtbl, submissions |-> stbl, ret |-> RetGrant(None)]
    ELSE LET sub == NewSubmission(sub_id, gid, a, t1, t2)
             r == _transition(gtbl, gid, "submitted", "", t3)
         IN  IF ~SubmissionInsertOk(stbl, gtbl, fk, sub)
             THEN [grants |-> r.grants, submissions |-> stbl, ret |-> RetRaise]
             ELSE [grants |-> r.grants, submissions |-> Append(stbl, sub),
                   ret |-> r.ret]

\* Variant: a grant that already has a submission gets no second row.
submitOnce(gtbl, stbl, fk, gid, sub_id, a, t1, t2, t3) ==
    IF get_grant(gtbl, gid) = None
    THEN [grants |-> gtbl, submissions |-> stbl, ret |-> RetGrant(None)]
    ELSE LET sub == NewSubmission(sub_id, gid, a, t1, t2)
         IN  IF ~SubmissionInsertOk(stbl, gtbl, fk, sub)
             THEN [grants |-> gtbl, submissions |-> stbl, ret |-> RetRaise]
             ELSE LET r == _transition(gtbl, gid, "submitted", "", t3)
                  IN  [grants |-> r.grants,
                       submissions |-> IF \E i \in DOMAIN stbl : stbl[i].grant_id = gid
                                       THEN stbl ELSE Append(stbl, sub),
                       ret |-> r.ret]

\* submit: existence check, insert (own transaction), then _transition
\* (own transaction).  t1, t2, t3 are the three readings of the clock.
submit(gtbl, stbl, fk, gid, sub_id, a, t1, t2, t3) ==
    IF get_grant(gtbl, gid) = None
    THEN [grants |-> gtbl, submissions |-> stbl, ret |-> RetGrant(None)]
    ELSE LET sub == NewSubmission(sub_id, gid, a, t1, t2)
         IN  IF ~SubmissionInsertOk(stbl, gtbl, fk, sub)
             THEN [grants |-> gtbl, submissions |-> stbl, ret |-> RetRaise]
             ELSE LET r == _transition(gtbl, gid, "submitted", "", t3)
                  IN  [grants |-> r.grants, submissions |-> Append(stbl, sub),
                       ret |-> r.ret]

\* ---------------------------------------------------------------- add_note
NewNote(id, gid, a, now) ==
    [id |-> id, grant_id |-> gid, content |-> a.content, author |-> a.author,
     created_at |-> now]

\* Variant: INSERT OR REPLACE, a used id replaces its row.
add_noteReplace(ntbl, gtbl, fk, gid, note_id, a, now) ==
    LET note == NewNote(note_id, gid, a, now)
        Other(r) == r.id # note_id
    IN  [grant_notes |-> Append(SelectSeq(ntbl, Other), note),
         ret |-> [kind |-> "Note", val |-> note]]

\* add_note: no existence check; the INSERT and the table's constraints.
add_note(ntbl, gtbl, fk, gid, note_id, a, now) ==
    LET note == NewNote(note_id, gid, a, now)
    IN  IF PrimaryKeyOk(ntbl, note_id) /\ ForeignKeyOk(fk, gtbl, gid)
        THEN [grant_notes |-> Append(ntbl, note), ret |-> [kind |-> "Note", val |-> note]]
        ELSE [grant_notes |-> ntbl, ret |-> RetRaise]

\* ------------------------------------------------------------------- reads
\* SELECT * FROM grant_notes WHERE grant_id = ?
NotesWhere(ntbl, gid) ==
    LET Mine(r) == r.grant_id = gid IN SelectSeq(ntbl, Mine)

\* SELECT * FROM submissions WHERE grant_id = ?
SubmissionsWhere(stbl, gid) ==
    LET Mine(r) == r.grant_id = gid IN SelectSeq(stbl, Mine)

\* ------------------------------------------------------------ ordered reads
\* ORDER BY key ASC over the selected row numbers S: SQL fixes the order of
\* two rows only when their keys differ, so every listing of S in key order
\* is a possible result.  A listing starts with a row of the least key.
RECURSIVE OrderBy(_, _)
OrderBy(S, key) ==
    IF S = {} THEN {<<>>}
    ELSE UNION {{<<x>> \o p : p \in OrderBy(S \ {x}, key)} :
                   x \in {y \in S : \A z \in S : key[y] <= key[z]}}

\* The sort key of a nullable date column: SQLite puts NULL before every value.
NullsFirst(opt) == IF opt = None THEN -1 ELSE opt[1]

\* `if x:` on an Optional[str] or Optional[Enum]: None and "" are false.
Truthy(opt) == opt # None /\ opt[1] # ""

\* Variant: ORDER BY created_at ASC.
get_notesOldestFirst(ntbl, gid) ==
    LET rows == NotesWhere(ntbl, gid)
    IN  {[k \in DOMAIN p |-> rows[p[k]]] :
            p \in OrderBy(DOMAIN rows, [i \in DOMAIN rows |-> rows[i].created_at])}

\* get_notes: ... WHERE grant_id = ? ORDER BY created_at DESC, as GrantNote objects.
get_notes(ntbl, gid) ==
    LET rows == NotesWhere(ntbl, gid)
    IN  {[k \in DOMAIN p |-> rows[p[k]]] :
            p \in OrderBy(DOMAIN rows, [i \in DOMAIN rows |-> 0 - rows[i].created_at])}

\* get_submissions: ... WHERE grant_id = ? ORDER BY submitted_at DESC, as
\* Submission objects (documents through json.loads).
get_submissions(stbl, gid) ==
    LET rows == SubmissionsWhere(stbl, gid)
    IN  {[k \in DOMAIN p |-> [rows[p[k]] EXCEPT !.documents = JsonLoads(@)]] :
            p \in OrderBy(DOMAIN rows, [i \in DOMAIN rows |-> 0 - rows[i].submitted_at])}

\* status and grant_type arguments of list_grants (None is the default).
StatusFilterArgs == {None, Some("identified"), Some("applying"), Some("awarded")}

TypeFilterArgs == {None, Some("federal"), Some("state")}

\* The WHERE clause list_grants builds: a condition per truthy filter.
ListWhere(row, status, grant_type, funder) ==
    /\ Truthy(status) => row.status = status[1]
    /\ Truthy(grant_type) => row.type = grant_type[1]
    /\ Truthy(funder) => row.funder = funder[1]

\* Variant: the funder filter is not added to the query.
list_grantsNoFunder(gtbl, status, grant_type, funder) ==
    LET sel == {i \in DOMAIN gtbl : ListWhere(gtbl[i], status, grant_type, None)}
    IN  {[k \in DOMAIN p |-> _row_to_grant(gtbl[p[k]])] :
            p \in OrderBy(sel, [i \in sel |-> NullsFirst(gtbl[i].deadline)])}

\* list_grants: the possible result lists.
list_grants(gtbl, status, grant_type, funder) ==
    LET sel == {i \in DOMAIN gtbl : ListWhere(gtbl[i], status, grant_type, funder)}
    IN  {[k \in DOMAIN p |-> _row_to_grant(gtbl[p[k]])] :
            p \in OrderBy(sel, [i \in sel |-> NullsFirst(gtbl[i].deadline)])}

\* ----------------------------------------------------------------- reports
\* funder_filter arguments of success_rate and funder arguments of list_grants.
FunderFilterArgs == {None, Some(""), Some("NSF"), Some("Gates")}

\* round(num / den, n) in units of 10^-n (scale is 10^n): the nearest
\* multiple, a tie going to the even one.
RoundRatio(num, den, scale) ==
    LET q == (num * scale) \div den
        r == (num * scale) % den
    IN  IF 2 * r < den THEN q
        ELSE IF 2 * r > den THEN q + 1
        ELSE IF q % 2 = 0 THEN q ELSE q + 1

\* SELECT status, COUNT(*) ... WHERE status IN (...) [AND funder = ?] GROUP BY
\* status, as the dict counts: a key for each status that has a row.
StatusCounts(gtbl, funder_filter) ==
    LET sel == {i \in DOMAIN gtbl :
                  /\ gtbl[i].status \in {"submitted", "awarded", "rejected"}
                  /\ Truthy(funder_filter) => gtbl[i].funder = funder_filter[1]}
    IN  [s \in {gtbl[i].status : i \in sel} |->
            Cardinality({i \in sel : gtbl[i].status = s})]

\* counts.get(key, 0)
DictGet(counts, key) == IF key \in DOMAIN counts THEN counts[key] ELSE 0

\* Variant: the rate of the docstring, awarded / (submitted + awarded + rejected).
success_rateDocstring(gtbl, funder_filter) ==
    LET counts == StatusCounts(gtbl, funder_filter)
        awarded == DictGet(counts, "awarded")
        rejected == DictGet(counts, "rejected")
        submitted == DictGet(counts, "submitted")
        total == submitted + awarded + rejected
    IN  [funder |-> IF Truthy(funder_filter) THEN funder_filter[1] ELSE "all",
         submitted |-> submitted, awarded |-> awarded, rejected |-> rejected,
         success_rate |-> IF total # 0 THEN RoundRatio(awarded, total, 1000) ELSE 0]

\* success_rate: the field success_rate is in thousandths (500 is 0.5).
success_rate(gtbl, funder_filter) ==
    LET counts == StatusCounts(gtbl, funder_filter)
        awarded == DictGet(counts, "awarded")
        rejected == DictGet(counts, "rejected")
        submitted == DictGet(counts, "submitted")
        total_decided == awarded + rejected
    IN  [funder |-> IF Truthy(funder_filter) THEN funder_filter[1] ELSE "all",
         submitted |-> submitted, awarded |-> awarded, rejected |-> rejected,
         success_rate |-> IF total_decided # 0
                          THEN RoundRatio(awarded, total_decided, 1000) ELSE 0]

\* The sum of the values of a function with a finite domain.
RECURSIVE Sum(_)
Sum(f) ==
    IF DOMAIN f = {} THEN 0
    ELSE LET x == CHOOSE x \in DOMAIN f : TRUE
         IN  f[x] + Sum([y \in DOMAIN f \ {x} |-> f[y]])

\* round(x, 2) of an amount: amounts are in cents, x is cents / 100.
Round2(cents) == RoundRatio(cents, 100, 100)

\* Variant: CASE WHEN status = 'awarded' THEN award_amount ELSE 0 END.
AwardedOrZeroWhileAwarded(row) ==
    IF row.status = "awarded" /\ row.award_amount # None THEN row.award_amount[1] ELSE 0

\* CASE WHEN award_amount IS NOT NULL THEN award_amount ELSE 0 END
AwardedOrZero(row) == IF row.award_amount # None THEN row.award_amount[1] ELSE 0

\* get_pipeline: the GROUP BY status query, the dict by_status with a key for
\* each status that has a row, and the totals accumulated over its rows.
get_pipeline(gtbl) ==
    LET rows == [s \in {gtbl[i].status : i \in DOMAIN gtbl} |->
                   LET g == {i \in DOMAIN gtbl : gtbl[i].status = s}
                   IN  [count |-> Cardinality(g),
                        requested |-> Sum([i \in g |-> gtbl[i].amount]),
                        awarded |-> Sum([i \in g |-> AwardedOrZero(gtbl[i])])]]
    IN  [by_status |-> [s \in DOMAIN rows |->
                          [count |-> rows[s].count,
                           total_requested |-> Round2(rows[s].requested),
                           total_awarded |-> Round2(rows[s].awarded)]],
         total_grants |-> Sum([s \in DOMAIN rows |-> rows[s].count]),
         total_requested |-> Round2(Sum([s \in DOMAIN rows |-> rows[s].requested])),
         total_awarded |-> Round2(Sum([s \in DOMAIN rows |-> rows[s].awarded]))]

\* date.today(), as a day number, at the calls of the two date reports.
TodayArgs == {0, 1, 2, 15}

\* months arguments of reporting_calendar.
MonthsArgs == {1, 2}

\* The dicts reporting_calendar appends for one Grant: its dates within
\* [lo, hi], in the order of its list.
CalendarEntries(g, lo, hi) ==
    LET Within(rd) == lo <= rd /\ rd <= hi
        due == SelectSeq(g.reporting_dates, Within)
    IN  [k \in DOMAIN due |->
            [grant_id |-> g.id, title |-> g.title, funder |-> g.funder,
             reporting_date |-> due[k], award_amount |-> g.award_amount]]

\* The list upcoming before it is sorted: the entries of each Grant of the list.
RECURSIVE Upcoming(_, _, _)
Upcoming(gl, lo, hi) ==
    IF gl = <<>> THEN <<>>
    ELSE CalendarEntries(Head(gl), lo, hi) \o Upcoming(Tail(gl), lo, hi)

\* list.sort(key=reporting_date): ascending and stable, an entry goes after
\* the entries before it whose date is not later.
RECURSIVE SortByDate(_)
SortByDate(es) ==
    IF es = <<>> THEN <<>>
    ELSE LET e == es[Len(es)]
             front == SortByDate(SubSeq(es, 1, Len(es) - 1))
             n == Cardinality({i \in DOMAIN front :
                                 front[i].reporting_date <= e.reporting_date})
         IN  SubSeq(front, 1, n) \o <<e>> \o SubSeq(front, n + 1, Len(front))

\* Variant: the calendar of the opportunities of every status.
reporting_calendarAnyStatus(gtbl, today, months) ==
    {SortByDate(Upcoming(gl, today, today + months * 30)) :
        gl \in list_grants(gtbl, None, None, None)}

\* reporting_calendar: the possible results, one for each order in which
\* list_grants may return the opportunities in status reporting.
reporting_calendar(gtbl, today, months) ==
    {SortByDate(Upcoming(gl, today, today + months * 30)) :
        gl \in list_grants(gtbl, Some("reporting"), None, None)}

\* days arguments of upcoming_deadlines.
DaysArgs == {0, 30, 60}

\* Variant: status IN ('identified','applying','submitted').
upcoming_deadlinesSubmitted(gtbl, today, today2, days) ==
    LET sel == {i \in DOMAIN gtbl :
                  /\ gtbl[i].deadline # None
                  /\ today <= gtbl[i].deadline[1]
                  /\ gtbl[i].deadline[1] <= today2 + days
                  /\ gtbl[i].status \in {"identified", "applying", "submitted"}}
    IN  {[k \in DOMAIN p |-> _row_to_grant(gtbl[p[k]])] :
            p \in OrderBy(sel, [i \in sel |-> gtbl[i].deadline[1]])}

\* upcoming_deadlines: today and today2 are its two readings of date.today(),
\* the second one for the cutoff.  A NULL deadline is not BETWEEN anything.
upcoming_deadlines(gtbl, today, today2, days) ==
    LET sel == {i \in DOMAIN gtbl :
                  /\ gtbl[i].deadline # None
                  /\ today <= gtbl[i].deadline[1]
                  /\ gtbl[i].deadline[1] <= today2 + days
                  /\ gtbl[i].status \in {"identified", "applying"}}
    IN  {[k \in DOMAIN p |-> _row_to_grant(gtbl[p[k]])] :
            p \in OrderBy(sel, [i \in sel |-> gtbl[i].deadline[1]])}

\* Variant: WHERE award_amount IS NOT NULL in place of status='awarded'.
total_funding_by_typeEverAwarded(gtbl) ==
    LET sel == {i \in DOMAIN gtbl : gtbl[i].award_amount # None}
    IN  [t \in {gtbl[i].type : i \in sel} |->
            Round2(Sum([i \in {j \in sel : gtbl[j].type = t} |-> gtbl[i].award_amount[1]]))]

\* total_funding_by_type: a key for each type that has a row with status
\* awarded; SUM skips NULL amounts and `or 0` turns a NULL sum into 0.
total_funding_by_type(gtbl) ==
    LET sel == {i \in DOMAIN gtbl : gtbl[i].status = "awarded"}
    IN  [t \in {gtbl[i].type : i \in sel} |->
            Round2(Sum([i \in {j \in sel : gtbl[j].type = t /\ gtbl[j].award_amount # None}
                         |-> gtbl[i].award_amount[1]]))]

\* ----------------------------------------------------------------- actions
\* The clock readings a method may see after reading t: time does not go back.
Later(t) == {u \in t..MaxClock : u <= t + 1}

\* The record of a call: args holds the arguments of a successful award,
\* add_note, apply or reject.
Called(op, gid, args, ret) == [op |-> op, gid |-> gid, args |-> args, ret |-> ret]

Tick ==
    /\ clock < MaxClock
    /\ clock' = clock + 1
    /\ UNCHANGED <<store, last, hist, call, nops>>

IdentifyCall(a, u) ==
    /\ Len(grants) < MaxGrants
    /\ LET grant == NewGrant(u, a, clock)
       IN  IF PrimaryKeyOk(grants, u)
           THEN /\ grants' = Append(grants, GrantToRow(grant))
                /\ last' = Called("identify", u, <<>>, [kind |-> "Grant", val |-> grant])
           ELSE /\ grants' = grants
                /\ last' = Called("identify", u, <<>>, RetRaise)
    /\ nops' = nops + 1
    /\ UNCHANGED <<submissions, grant_notes, clock, hist, call>>

Identify ==
    /\ nops < MaxOps
    /\ \E a \in IdentifyArgs, u \in uuid4(grants) : IdentifyCall(a, u)

\* apply, reject, start_reporting and close: each is one call of _transition.
DoTransition(op, gid, new_status, notes, args) ==
    /\ \E r \in {_transition(grants, gid, new_status, notes, clock)} :
           /\ grants' = r.grants
           /\ last' = Called(op, gid, IF r.ret.kind = "Grant" THEN args ELSE <<>>, r.ret)
    /\ nops' = nops + 1
    /\ UNCHANGED <<submissions, grant_notes, clock, hist, call>>

\* apply passes notes on and drops assigned_to.
ApplyCall(gid, notes, assigned_to) ==
    DoTransition("apply", gid, "applying", notes,
                 [notes |-> notes, assigned_to |-> assigned_to])

Apply ==
    /\ nops < MaxOps
    /\ \E gid \in GrantIdArgs(grants), notes \in ApplyNotesArgs,
          assigned_to \in AssignedArgs :
           ApplyCall(gid, notes, assigned_to)

RejectCall(gid, notes) ==
    DoTransition("reject", gid, "rejected", notes, [notes |-> notes])

Reject ==
    /\ nops < MaxOps
    /\ \E gid \in GrantIdArgs(grants), notes \in RejectNotesArgs : RejectCall(gid, notes)

StartReportingCall(gid) == DoTransition("start_reporting", gid, "reporting", "", <<>>)

StartReporting ==
    /\ nops < MaxOps
    /\ \E gid \in GrantIdArgs(grants) : StartReportingCall(gid)

CloseCall(gid) == DoTransition("close", gid, "closed", "", <<>>)

Close ==
    /\ nops < MaxOps
    /\ \E gid \in GrantIdArgs(grants) : CloseCall(gid)

AwardCall(gid, award_amount, reporting_dates) ==
    /\ \E r \in {award(grants, gid, award_amount, reporting_dates, clock)} :
           /\ grants' = r.grants
           /\ last' = Called("award", gid,
                             IF r.ret.kind = "Grant"
                             THEN [award_amount |-> award_amount,
                                   reporting_dates |-> reporting_dates]
                             ELSE <<>>,
                             r.ret)
           /\ hist' = IF r.ret.kind = "Grant"
                      THEN [hist EXCEPT
                              !.awarded = @ \cup {gid},
                              !.dated = IF OrEmpty(reporting_dates) # <<>>
                                        THEN @ \cup {gid} ELSE @]
                      ELSE hist
    /\ nops' = nops + 1
    /\ UNCHANGED <<submissions, grant_notes, clock, call>>

Award ==
    /\ nops < MaxOps
    /\ \E gid \in GrantIdArgs(grants), award_amount \in AwardAmountArgs,
          reporting_dates \in ReportingDatesArgs :
           AwardCall(gid, award_amount, reporting_dates)

SubmitCall(gid, sub_id, a, t2, t3) ==
    /\ Len(submissions) < MaxSubs
    /\ \E r \in {submit(grants, submissions, foreign_keys, gid, sub_id, a,
                       clock, t2, t3)} :
           /\ grants' = r.grants
           /\ submissions' = r.submissions
           /\ clock' = IF r.ret.kind = "None" THEN clock
                       ELSE IF r.ret.kind = "Grant" THEN t3 ELSE t2
           /\ last' = Called("submit", gid, <<>>, r.ret)
           /\ hist' = IF r.ret.kind = "Grant"
                      THEN [hist EXCEPT !.submits[gid] = @ + 1]
                      ELSE hist
    /\ nops' = nops + 1
    /\ UNCHANGED <<grant_notes, call>>

Submit ==
    /\ nops < MaxOps
    /\ \E gid \in GrantIdArgs(grants), sub_id \in uuid4(submissions), a \in SubmitArgs :
       \E t2 \in Later(clock) : \E t3 \in Later(t2) :
           SubmitCall(gid, sub_id, a, t2, t3)

AddNoteCall(gid, note_id, a) ==
    /\ Len(grant_notes) < MaxNotes
    /\ \E r \in {add_note(grant_notes, grants, foreign_keys, gid, note_id, a, clock)} :
           /\ grant_notes' = r.grant_notes
           /\ last' = Called("add_note", gid,
                             IF r.ret.kind = "Note" THEN a ELSE <<>>, r.ret)
           /\ hist' = IF r.ret.kind = "Note"
                      THEN [hist EXCEPT !.notes[gid] = @ + 1]
                      ELSE hist
    /\ nops' = nops + 1
    /\ UNCHANGED <<grants, submissions, clock, call>>

AddNote ==
    /\ nops < MaxOps
    /\ \E gid \in GrantIdArgs(grants), note_id \in uuid4(grant_notes), a \in NoteArgs :
           AddNoteCall(gid, note_id, a)

Next ==
    \/ Tick
    \/ Identify
    \/ Apply
    \/ Submit
    \/ Award
    \/ Reject
    \/ StartReporting
    \/ Close
    \/ AddNote

Spec == Init /\ [][Next]_vars

\* ------------------------------------------------- submit, statement by statement
\* Spec runs each method to completion before the next call.  SpecConc follows
\* one submit call through its statements while other callers (other
\* GrantTracker instances on the same database file) make their calls: each
\* `with self.conn:` block commits when it is left.

\* Lines 228-240: the existence check and the construction of the Submission.
SubmitBegin ==
    /\ call.pc = "idle"
    /\ nops < MaxOps
    /\ Len(submissions) < MaxSubs
    /\ \E gid \in GrantIdArgs(grants), sub_id \in uuid4(submissions), a \in SubmitArgs :
       \E t2 \in Later(clock) :
         IF get_grant(grants, gid) = None
         THEN /\ last' = Called("submit", gid, <<>>, RetGrant(None))
              /\ UNCHANGED <<call, clock>>
         ELSE /\ call' = [pc |-> "insert", gid |-> gid, at |-> nops + 1,
                          sub |-> NewSubmission(sub_id, gid, a, clock, t2)]
              /\ clock' = t2
              /\ UNCHANGED last
    /\ nops' = nops + 1
    /\ UNCHANGED <<store, hist>>

\* Lines 241-248: the INSERT and the commit of the first `with` block.
SubmitInsert ==
    /\ call.pc = "insert"
    /\ IF SubmissionInsertOk(submissions, grants, foreign_keys, call.sub)
       THEN /\ submissions' = Append(submissions, call.sub)
            /\ call' = [call EXCEPT !.pc = "transition", !.at = nops]
            /\ UNCHANGED last
       ELSE /\ last' = Called("submit", call.gid, <<>>, RetRaise)
            /\ call' = [pc |-> "idle"]
            /\ UNCHANGED submissions
    /\ UNCHANGED <<grants, grant_notes, clock, hist, nops>>

\* Line 249: _transition(grant_id, SUBMITTED), its own `with` block, and the return.
SubmitTransition ==
    /\ call.pc = "transition"
    /\ \E r \in {_transition(grants, call.gid, "submitted", "", clock)} :
           /\ grants' = r.grants
           /\ last' = Called("submit", call.gid, <<>>, r.ret)
           /\ hist' = IF r.ret.kind = "Grant"
                      THEN [hist EXCEPT !.submits[call.gid] = @ + 1]
                      ELSE hist
    /\ call' = [pc |-> "idle"]
    /\ UNCHANGED <<submissions, grant_notes, clock, nops>>

NextConc ==
    \/ Tick
    \/ Identify
    \/ Apply
    \/ SubmitBegin
    \/ SubmitInsert
    \/ SubmitTransition
    \/ Award
    \/ Reject
    \/ StartReporting
    \/ Close
    \/ AddNote

SpecConc == Init /\ [][NextConc]_vars

\* --------------------------------------------------- longer runs of plain calls
\* SpecLong makes up to MaxCalls calls with the arguments of an orderly caller:
\* identifiers of stored opportunities, fresh uuids, default notes, and an award
\* either by default or with an amount and dates.  It reaches the stores with
\* several opportunities in different statuses that the reports are about.
LongAwardArgs ==
    { [award_amount |-> None, reporting_dates |-> None],
      [award_amount |-> Some(45), reporting_dates |-> Some(<<45, 1>>)] }

\* The opportunities of the longer runs: a third one shares funder and type
\* with the first and has a later deadline than the second.
LongIdentifyArgs ==
    IdentifyArgs \cup
    { [title |-> "G3", funder |-> "NSF", amount |-> 50, deadline |-> Some(40),
       grant_type |-> "federal", purpose |-> "", requirements |-> None,
       contacts |-> None, assigned_to |-> ""] }

LongIdentify ==
    /\ nops < MaxCalls
    /\ \E a \in LongIdentifyArgs, u \in Unused(grants) : IdentifyCall(a, u)

LongApply ==
    /\ nops < MaxCalls
    /\ \E gid \in RowIds(grants) : ApplyCall(gid, "", "")

LongSubmit ==
    /\ nops < MaxCalls
    /\ \E gid \in RowIds(grants), sub_id \in Unused(submissions) :
           SubmitCall(gid, sub_id, [notes |-> "", submitted_by |-> "", documents |-> None],
                      clock, clock)

LongAward ==
    /\ nops < MaxCalls
    /\ \E gid \in RowIds(grants), a \in LongAwardArgs :
           AwardCall(gid, a.award_amount, a.reporting_dates)

LongReject ==
    /\ nops < MaxCalls
    /\ \E gid \in RowIds(grants) : RejectCall(gid, "")

LongStartReporting ==
    /\ nops < MaxCalls
    /\ \E gid \in RowIds(grants) : StartReportingCall(gid)

LongClose ==
    /\ nops < MaxCalls
    /\ \E gid \in RowIds(grants) : CloseCall(gid)

NextLong ==
    \/ LongIdentify
    \/ LongApply
    \/ LongSubmit
    \/ LongAward
    \/ LongReject
    \/ LongStartReporting
    \/ LongClose

SpecLong == Init /\ [][NextLong]_vars

\* ------------------------------------------------------------------ claims
\* A step of Spec that is a call of a method (Tick is not one).
IsCall == nops' = nops + 1

\* The row of grant gid in a table that has one.
RowOf(gtbl, gid) == gtbl[CHOOSE i \in DOMAIN gtbl : gtbl[i].id = gid]

\* The status each transition method moves an opportunity to.
TargetStatus ==
    [apply |-> "applying", submit |-> "submitted", award |-> "awarded",
     reject |-> "rejected", start_reporting |-> "reporting", close |-> "closed"]

\* C1: the opportunity identify stores and returns has status identified, no
\* award amount, no reporting dates and an identifier that no opportunity
\* already in the store has; no two stored opportunities ever share an identifier.
C1_IdentifyFreshUnique ==
    /\ \A i, j \in DOMAIN grants : grants[i].id = grants[j].id => i = j
    /\ (last.op = "identify" /\ last.ret.kind = "Grant") =>
         LET g == last.ret.val
             n == Len(grants)
         IN  /\ g.status = "identified"
             /\ g.award_amount = None
             /\ g.reporting_dates = <<>>
             /\ n > 0
             /\ _row_to_grant(grants[n]) = g
             /\ \A i \in 1..(n - 1) : grants[i].id # g.id

\* C1 witness: a second opportunity has just been identified.
C1_Witness ==
    /\ last.op = "identify"
    /\ last.ret.kind = "Grant"
    /\ Len(grants) = 2

\* C2: on an existing opportunity, whatever its current status (rejected and
\* closed included), apply, submit, award, reject, start_reporting and close
\* return the opportunity in the method's target status and store that status
\* (for submit: when the store accepts the new submission row).
C2_AnyStatusAccepted ==
    ( /\ last.op \in DOMAIN TargetStatus
      /\ last.gid \in RowIds(grants)
      /\ last.ret.kind # "IntegrityError" )
    => /\ last.ret.kind = "Grant"
       /\ last.ret.val.status = TargetStatus[last.op]
       /\ RowOf(grants, last.gid).status = TargetStatus[last.op]

\* C2 witness: apply has just moved an opportunity out of rejected (its notes
\* are those of the reject call).
C2_Witness ==
    /\ last.op = "apply"
    /\ last.ret.kind = "Grant"
    /\ last.ret.val.status = "applying"
    /\ last.ret.val.notes = "n2"

\* C3: a successful submit leaves the opportunity in status submitted with its
\* new submission row stored, and for every identifier the number of
\* submissions listed for it equals the number of successful submit calls on it.
C3_OneSubmissionPerSubmit ==
    /\ \A u \in Ids : Len(SubmissionsWhere(submissions, u)) = hist.submits[u]
    /\ (last.op = "submit" /\ last.ret.kind = "Grant") =>
         /\ last.ret.val.status = "submitted"
         /\ RowOf(grants, last.gid).status = "submitted"
         /\ submissions # <<>>
         /\ submissions[Len(submissions)].grant_id = last.gid

\* C3 witness: apply then submit; the opportunity has exactly one submission.
C3_Witness ==
    /\ last.op = "submit"
    /\ last.ret.kind = "Grant"
    /\ last.ret.val.notes = "n1"
    /\ Len(SubmissionsWhere(submissions, last.gid)) = 1

\* C4: award on an existing opportunity leaves status awarded and award_amount
\* equal to the supplied amount when one is supplied (0 included) and to the
\* requested amount when none is; the requested amount is still the one
\* identify stored.
C4_AwardAmount ==
    /\ \A i \in DOMAIN grants :
         \E a \in IdentifyArgs :
            grants[i].title = a.title /\ grants[i].amount = a.amount
    /\ (last.op = "award" /\ last.gid \in RowIds(grants)) =>
         LET row == RowOf(grants, last.gid)
         IN  /\ last.ret.kind = "Grant"
             /\ row.status = "awarded"
             /\ row.award_amount =
                  (IF last.args.award_amount = None THEN Some(row.amount)
                   ELSE last.args.award_amount)
             /\ last.ret.val.award_amount = row.award_amount
             /\ last.ret.val.amount = row.amount

\* C4 witness: award was called with amount 0 on an opportunity that requested 100.
C4_Witness ==
    /\ last.op = "award"
    /\ last.ret.kind = "Grant"
    /\ last.args.award_amount = Some(0)
    /\ last.ret.val.award_amount = Some(0)
    /\ last.ret.val.amount = 100

\* C5: award replaces the reporting dates by the supplied list, or by the
\* empty list when none is supplied, whatever dates the opportunity had.
C5_AwardOverwritesDates ==
    (last.op = "award" /\ last.ret.kind = "Grant") =>
        /\ JsonLoads(RowOf(grants, last.gid).reporting_dates) =
             (IF last.args.reporting_dates = None THEN <<>>
              ELSE last.args.reporting_dates[1])
        /\ last.ret.val.reporting_dates =
             JsonLoads(RowOf(grants, last.gid).reporting_dates)

\* C5 witness: an opportunity awarded with reporting dates has been awarded
\* again without, and has none left.
C5_Witness ==
    /\ last.op = "award"
    /\ last.ret.kind = "Grant"
    /\ last.gid \in hist.dated
    /\ last.args.reporting_dates = None
    /\ last.ret.val.reporting_dates = <<>>

\* A call of a transition method with an identifier no opportunity has
\* returns None and writes nothing.
UnknownIdCallIsNoOp ==
    ( /\ IsCall
      /\ last'.op \in DOMAIN TargetStatus
      /\ last'.gid \notin RowIds(grants) )
    => /\ last'.ret.kind = "None"
       /\ UNCHANGED store

\* For an identifier no opportunity has, get returns None and get_notes and
\* get_submissions return the empty list.
UnknownIdReadsAbsent ==
    \A u \in Ids \ RowIds(grants) :
        /\ get_grant(grants, u) = None
        /\ NotesWhere(grant_notes, u) = <<>>
        /\ SubmissionsWhere(submissions, u) = <<>>

\* C6: apply, submit, award, reject, start_reporting and close with an unknown
\* identifier return None without raising and leave the store unchanged; get
\* on an unknown identifier returns None, get_notes and get_submissions the
\* empty list.
C6_UnknownIdIsAbsent == [][UnknownIdCallIsNoOp /\ UnknownIdReadsAbsent']_vars

\* C7: every stored note's grant_id is the identifier of a stored opportunity,
\* and add_note with an unknown identifier stores no note and returns absence.
C7_NotesReferToGrants ==
    /\ \A i \in DOMAIN grant_notes : grant_notes[i].grant_id \in RowIds(grants)
    /\ (last.op = "add_note" /\ last.gid \notin RowIds(grants)) =>
         last.ret.kind = "None"

\* C8: a submit whose INSERT of the submission row fails leaves every
\* opportunity (status and updated_at included) and the submissions table as
\* they were.
C8_FailedSubmitChangesNothing ==
    [][( /\ IsCall
         /\ last'.op = "submit"
         /\ last'.ret.kind = "IntegrityError" )
       => /\ grants' = grants
          /\ submissions' = submissions]_vars

\* C8 witness: a submit on an existing opportunity has just failed on its INSERT.
C8_Witness ==
    /\ last.op = "submit"
    /\ last.ret.kind = "IntegrityError"
    /\ last.gid \in RowIds(grants)
    /\ submissions # <<>>

\* C9: with other callers interleaved, there is no state in which a submit
\* call's submission row is committed and its status update is not yet
\* applied, and no other caller's transition on the same opportunity commits
\* between the two writes.
C9_SubmitIsOneTransaction ==
    (call.pc = "transition" /\ call.sub \in Rows(submissions)) =>
        /\ RowOf(grants, call.gid).status = "submitted"
        /\ ~( /\ nops > call.at
              /\ last.op \in DOMAIN TargetStatus
              /\ last.gid = call.gid
              /\ last.ret.kind = "Grant" )

\* C10 as claimed: award_amount is null while no award has succeeded on the
\* opportunity and a non-negative number ever after.
C10_AwardAmountNonNegative ==
    \A i \in DOMAIN grants :
        IF grants[i].id \notin hist.awarded
        THEN grants[i].award_amount = None
        ELSE /\ grants[i].award_amount # None
             /\ grants[i].award_amount[1] >= 0

\* C10 amended: award_amount is null while no award has succeeded on the
\* opportunity and ever after it is a number, whatever transitions follow: an
\* amount a caller passed to award, or the requested amount.  Its sign is the
\* caller's; nothing validates it.
C10_AwardAmountSetByAward ==
    \A i \in DOMAIN grants :
        /\ grants[i].id \notin hist.awarded <=> grants[i].award_amount = None
        /\ grants[i].award_amount # None =>
             \/ grants[i].award_amount \in AwardAmountArgs
             \/ grants[i].award_amount[1] = grants[i].amount

\* C10 witness: an opportunity awarded a negative amount and then rejected
\* still carries that amount.
C10_Witness ==
    \E i \in DOMAIN grants :
        /\ grants[i].id \in hist.awarded
        /\ grants[i].status = "rejected"
        /\ grants[i].award_amount = Some(-3)

\* C11: the store is insert/update-only.  No step removes a row of any table;
\* a stored opportunity keeps its id; a stored submission or note is never
\* modified: each step leaves the old submissions and notes as they were and
\* can only add rows after them.
C11_InsertUpdateOnly ==
    [][ /\ Len(grants') >= Len(grants)
        /\ \A i \in DOMAIN grants : grants'[i].id = grants[i].id
        /\ Len(submissions') >= Len(submissions)
        /\ SubSeq(submissions', 1, Len(submissions)) = submissions
        /\ Len(grant_notes') >= Len(grant_notes)
        /\ SubSeq(grant_notes', 1, Len(grant_notes)) = grant_notes ]_vars

\* A submission is stored and a note has just been added after it.
C11_Witness ==
    /\ submissions # <<>>
    /\ last.op = "add_note" /\ last.ret.kind = "Note"
    /\ \E i \in DOMAIN grants : grants[i].id = last.gid /\ grants[i].status = "submitted"

\* C12: rejected and closed are terminal.  Once an opportunity's status is
\* rejected or closed, no step changes its status.
C12_TerminalStatuses ==
    [][ \A i \in DOMAIN grants :
          grants[i].status \in {"rejected", "closed"}
          => grants'[i].status = grants[i].status ]_vars

\* C12 as the code has it: rejected and closed are left by a transition call
\* and by nothing else.  A call of apply, submit, award, reject,
\* start_reporting or close that returns the opportunity moves it from
\* rejected or closed to the status of that method; every other step (a call
\* on another opportunity, identify, add_note, a failed call, time passing)
\* leaves its status as it was.
C12_TerminalLeftOnlyByTransition ==
    [][ \A i \in DOMAIN grants :
          grants[i].status \in {"rejected", "closed"}
          => IF /\ IsCall
                /\ last'.op \in DOMAIN TargetStatus
                /\ last'.gid = grants[i].id
                /\ last'.ret.kind = "Grant"
             THEN grants'[i].status = TargetStatus[last'.op]
             ELSE grants'[i].status = grants[i].status ]_vars

\* A rejected opportunity (its notes are those of the reject call) has just
\* been moved to reporting.
C12_Witness ==
    /\ last.op = "start_reporting"
    /\ last.ret.kind = "Grant"
    /\ last.ret.val.notes = "n2"
    /\ RowOf(grants, last.gid).status = "reporting"

\* The stored opportunities in one status, of one funder when a funder filter
\* is given (None and the empty string give no filter).
InStatus(status, f) ==
    {i \in DOMAIN grants :
        /\ grants[i].status = status
        /\ (f # None /\ f # Some("")) => grants[i].funder = f[1]}

AwardOf(i) == IF grants[i].award_amount = None THEN 0 ELSE grants[i].award_amount[1]

\* C14: get_pipeline reports, for each status that has an opportunity, their
\* number, the sum of their requested amounts and the sum of their award
\* amounts (null as 0); total_grants is the number of opportunities identified
\* so far, total_requested the sum of all requested amounts, total_awarded the
\* sum of all non-null award amounts whatever the status.  The requested amount
\* of an opportunity in any status is the one it was identified with, so
\* transitions do not change total_requested.
C14_PipelineSummary ==
    \A p \in {get_pipeline(grants)} :
        LET All == DOMAIN grants
            In(s) == {i \in All : grants[i].status = s}
        IN  /\ DOMAIN p.by_status = {s \in GrantStatus : In(s) # {}}
            /\ \A s \in DOMAIN p.by_status :
                  /\ p.by_status[s].count = Cardinality(In(s))
                  /\ p.by_status[s].total_requested = Sum([i \in In(s) |-> grants[i].amount])
                  /\ p.by_status[s].total_awarded = Sum([i \in In(s) |-> AwardOf(i)])
            /\ p.total_grants = Len(grants)
            /\ p.total_requested = Sum([i \in All |-> grants[i].amount])
            /\ p.total_awarded = Sum([i \in All |-> AwardOf(i)])
            /\ \A i \in All : \E a \in LongIdentifyArgs :
                  a.title = grants[i].title /\ a.amount = grants[i].amount

\* An awarded opportunity has been rejected afterwards and another one is
\* still identified: the award counts under rejected and in total_awarded.
C14_Witness ==
    /\ Len(grants) = 2
    /\ \E i \in DOMAIN grants :
          grants[i].status = "rejected" /\ grants[i].award_amount = Some(45)
    /\ DOMAIN get_pipeline(grants).by_status = {"rejected", "identified"}
    /\ get_pipeline(grants).by_status["rejected"].total_awarded = 45
    /\ get_pipeline(grants).total_awarded = 45
    /\ get_pipeline(grants).total_requested = 300

\* The reporting dates stored for an opportunity, as a list.
DatesOf(i) == JsonLoads(grants[i].reporting_dates)

\* C15: reporting_calendar(m) has exactly one entry for each reporting date of
\* each opportunity now in status reporting that lies in [today, today + 30 m],
\* and no other entry; an entry carries the opportunity's id, title, funder and
\* award amount and the date; the entries are in ascending order of date.
C15_ReportingCalendar ==
    \A today \in TodayArgs, m \in MonthsArgs :
    \A cal \in reporting_calendar(grants, today, m) :
        LET listed == UNION {{<<i, k>> : k \in DOMAIN DatesOf(i)} : i \in DOMAIN grants}
            due == {ik \in listed :
                      /\ grants[ik[1]].status = "reporting"
                      /\ today <= DatesOf(ik[1])[ik[2]]
                      /\ DatesOf(ik[1])[ik[2]] <= today + 30 * m}
            Entry(ik) == [grant_id |-> grants[ik[1]].id,
                          title |-> grants[ik[1]].title,
                          funder |-> grants[ik[1]].funder,
                          reporting_date |-> DatesOf(ik[1])[ik[2]],
                          award_amount |-> grants[ik[1]].award_amount]
        IN  /\ Len(cal) = Cardinality(due)
            /\ \A ik \in due : \E n \in DOMAIN cal : cal[n] = Entry(ik)
            /\ \A n \in DOMAIN cal : \E ik \in due : cal[n] = Entry(ik)
            /\ \A n, k \in DOMAIN cal :
                  n < k => cal[n].reporting_date <= cal[k].reporting_date

\* An opportunity awarded with the dates of day 45 and day 1, in this order,
\* is in reporting and another opportunity is not: from day 0 the calendar of
\* two months lists the two dates of the first, earlier date first, the
\* calendar of one month only the earlier, and from day 2 only the later.
C15_Witness ==
    \E i, j \in DOMAIN grants :
        /\ grants[i].status = "reporting" /\ DatesOf(i) = <<45, 1>>
        /\ grants[j].status # "reporting"
        /\ \A cal \in reporting_calendar(grants, 0, 2) :
              /\ Len(cal) = 2
              /\ cal[1].grant_id = grants[i].id /\ cal[1].reporting_date = 1
              /\ cal[2].grant_id = grants[i].id /\ cal[2].reporting_date = 45
        /\ \A cal \in reporting_calendar(grants, 0, 1) :
              Len(cal) = 1 /\ cal[1].reporting_date = 1
        /\ \A cal \in reporting_calendar(grants, 2, 2) :
              Len(cal) = 1 /\ cal[1].reporting_date = 45

\* C16: upcoming_deadlines(d), called on day today, returns exactly the
\* opportunities that have a deadline, whose deadline is in [today, today + d]
\* with both ends included and whose status is identified or applying, each
\* once, in ascending order of deadline.  (Both readings of the date that the
\* call makes are taken on the same day.)
C16_UpcomingDeadlines ==
    \A today \in TodayArgs, d \in DaysArgs :
    \A res \in upcoming_deadlines(grants, today, today, d) :
        LET due == {i \in DOMAIN grants :
                      /\ grants[i].deadline # None
                      /\ today <= grants[i].deadline[1]
                      /\ grants[i].deadline[1] <= today + d
                      /\ grants[i].status \in {"identified", "applying"}}
        IN  /\ Len(res) = Cardinality(due)
            /\ \A i \in due : \E n \in DOMAIN res : res[n].id = grants[i].id
            /\ \A n \in DOMAIN res : \E i \in due : res[n] = _row_to_grant(grants[i])
            /\ \A n, k \in DOMAIN res : n < k => res[n].deadline[1] <= res[k].deadline[1]

\* An opportunity with the deadline of day 40 was identified before one with
\* the deadline of day 1, which is now applying: on day 0 with d = 60 both are
\* returned, the later identified one first; with d = 30 it alone is; with
\* d = 0 it is returned on day 1 only; on day 2 its deadline has passed.
C16_Witness ==
    /\ Len(grants) = 2
    /\ grants[1].deadline = Some(40) /\ grants[1].status = "identified"
    /\ grants[2].deadline = Some(1) /\ grants[2].status = "applying"
    /\ upcoming_deadlines(grants, 0, 0, 60)
         = {<<_row_to_grant(grants[2]), _row_to_grant(grants[1])>>}
    /\ upcoming_deadlines(grants, 0, 0, 30) = {<<_row_to_grant(grants[2])>>}
    /\ upcoming_deadlines(grants, 1, 1, 0) = {<<_row_to_grant(grants[2])>>}
    /\ upcoming_deadlines(grants, 0, 0, 0) = {<<>>}
    /\ upcoming_deadlines(grants, 2, 2, 30) = {<<>>}

\* C17: total_funding_by_type has an entry for exactly the grant types that
\* have an opportunity now in status awarded, and the entry is the sum of the
\* award amounts of the opportunities of that type now in status awarded; an
\* opportunity that has moved on contributes nothing.
C17_FundingByType ==
    \A r \in {total_funding_by_type(grants)} :
        LET Awarded(t) == {i \in DOMAIN grants :
                             grants[i].status = "awarded" /\ grants[i].type = t}
        IN  /\ DOMAIN r = {t \in GrantType : Awarded(t) # {}}
            /\ \A t \in DOMAIN r : r[t] = Sum([i \in Awarded(t) |-> AwardOf(i)])

\* Two opportunities of one type have been awarded and an opportunity of
\* another type has none: the total of the type is the sum of the two amounts
\* and the other type has no entry.
C17_Witness ==
    \E i, j \in DOMAIN grants :
        /\ i # j
        /\ grants[i].type = "federal" /\ grants[i].status = "awarded"
        /\ grants[j].type = "federal" /\ grants[j].status = "awarded"
        /\ AwardOf(i) # AwardOf(j)
        /\ DOMAIN total_funding_by_type(grants) = {"federal"}
        /\ total_funding_by_type(grants)["federal"] = AwardOf(i) + AwardOf(j)

\* C18: list_grants with a status, type and/or funder filter returns exactly
\* the opportunities whose status, type and funder equal every filter given
\* (all of them when none is given; None and the empty string give no
\* filter), each once, in ascending order of deadline, those without a
\* deadline first.
C18_ListFilters ==
    \A st \in StatusFilterArgs, ty \in TypeFilterArgs, fu \in FunderFilterArgs :
    \A res \in list_grants(grants, st, ty, fu) :
        LET match == {i \in DOMAIN grants :
                        /\ st # None => grants[i].status = st[1]
                        /\ ty # None => grants[i].type = ty[1]
                        /\ (fu # None /\ fu # Some("")) => grants[i].funder = fu[1]}
        IN  /\ Len(res) = Cardinality(match)
            /\ \A i \in match : \E n \in DOMAIN res : res[n].id = grants[i].id
            /\ \A n \in DOMAIN res : \E i \in match : res[n] = _row_to_grant(grants[i])
            /\ \A n, k \in DOMAIN res :
                  n < k => \/ res[n].deadline = None
                           \/ /\ res[k].deadline # None
                              /\ res[n].deadline[1] <= res[k].deadline[1]

\* The opportunity with the deadline of day 40 was identified first, then one
\* of the same funder and type without a deadline, which is now applying: the
\* unfiltered list and the list of their funder and type have the second one
\* first, the list of status applying has it alone, and the list of another
\* funder is empty.
C18_Witness ==
    /\ Len(grants) = 2
    /\ grants[1].deadline = Some(40) /\ grants[1].status = "identified"
    /\ grants[2].deadline = None /\ grants[2].status = "applying"
    /\ list_grants(grants, None, None, None)
         = {<<_row_to_grant(grants[2]), _row_to_grant(grants[1])>>}
    /\ list_grants(grants, None, Some("federal"), Some("NSF"))
         = {<<_row_to_grant(grants[2]), _row_to_grant(grants[1])>>}
    /\ list_grants(grants, Some("applying"), None, None) = {<<_row_to_grant(grants[2])>>}
    /\ list_grants(grants, None, None, Some("Gates")) = {<<>>}

\* The place of a row in a list that has it.
PlaceIn(res, row) == CHOOSE n \in DOMAIN res : res[n] = row

\* C19: add_note on an opportunity in any status appends exactly one note with
\* the given content and author; get_notes returns all and only the notes of
\* the opportunity, and of two of them the one added later is listed before
\* the one added earlier; get_submissions does the same for its submissions.
C19_LaterAddedListedFirst ==
    /\ (last.op = "add_note" /\ last.ret.kind = "Note") =>
          /\ grant_notes[Len(grant_notes)] = last.ret.val
          /\ last.ret.val.grant_id = last.gid
          /\ last.ret.val.content = last.args.content
          /\ last.ret.val.author = last.args.author
    /\ \A u \in RowIds(grants) :
          /\ \A res \in get_notes(grant_notes, u) :
                /\ Len(res) = hist.notes[u]
                /\ \A i \in DOMAIN grant_notes :
                      grant_notes[i].grant_id = u => \E n \in DOMAIN res : res[n] = grant_notes[i]
                /\ \A i, j \in DOMAIN grant_notes :
                      (i < j /\ grant_notes[i].grant_id = u /\ grant_notes[j].grant_id = u)
                      => PlaceIn(res, grant_notes[j]) < PlaceIn(res, grant_notes[i])
          /\ \A res \in get_submissions(submissions, u) :
                /\ Len(res) = hist.submits[u]
                /\ \A i \in DOMAIN submissions :
                      submissions[i].grant_id = u => \E n \in DOMAIN res : res[n].id = submissions[i].id
                /\ \A i, j \in DOMAIN submissions :
                      (i < j /\ submissions[i].grant_id = u /\ submissions[j].grant_id = u)
                      => \E n, k \in DOMAIN res :
                            n < k /\ res[n].id = submissions[j].id
                                  /\ res[k].id = submissions[i].id

\* C19 as the code has it: the lists are in descending order of timestamp
\* (created_at of notes, submitted_at of submissions), so a row with a later
\* timestamp is listed before one with an earlier timestamp; nothing is said
\* of two rows with the same timestamp.  The rest is as in C19: a successful
\* add_note stores one more note of the opportunity, with the given content
\* and author, and the lists hold all and only the rows of the opportunity,
\* as many as there were successful add_note and submit calls on it.
C19_NewestTimestampFirst ==
    /\ (last.op = "add_note" /\ last.ret.kind = "Note") =>
          /\ grant_notes[Len(grant_notes)] = last.ret.val
          /\ last.ret.val.grant_id = last.gid
          /\ last.ret.val.content = last.args.content
          /\ last.ret.val.author = last.args.author
    /\ \A u \in Ids :
          /\ \A res \in get_notes(grant_notes, u) :
                /\ Len(res) = hist.notes[u]
                /\ \A i \in DOMAIN grant_notes :
                      grant_notes[i].grant_id = u => \E n \in DOMAIN res : res[n] = grant_notes[i]
                /\ \A n \in DOMAIN res : res[n].grant_id = u
                /\ \A n, k \in DOMAIN res : n < k => res[n].created_at >= res[k].created_at
          /\ \A res \in get_submissions(submissions, u) :
                /\ Len(res) = hist.submits[u]
                /\ \A i \in DOMAIN submissions :
                      submissions[i].grant_id = u => \E n \in DOMAIN res : res[n].id = submissions[i].id
                /\ \A n \in DOMAIN res : res[n].grant_id = u
                /\ \A n, k \in DOMAIN res : n < k => res[n].submitted_at >= res[k].submitted_at

\* A second note has just been added to a stored opportunity, at a later time
\* than the first: both are listed, the second one first.
C19_Witness ==
    /\ last.op = "add_note" /\ last.ret.kind = "Note"
    /\ last.gid \in RowIds(grants)
    /\ Len(grant_notes) = 2
    /\ grant_notes[1].created_at < grant_notes[2].created_at
    /\ get_notes(grant_notes, last.gid) = {<<grant_notes[2], grant_notes[1]>>}

\* C20: the win rate success_rate returns is awarded / (submitted + awarded +
\* rejected), to 3 decimals: the opportunities still in status submitted are
\* counted in the denominator.
C20_WinRateCountsSubmitted ==
    \A f \in FunderFilterArgs :
        LET a == Cardinality(InStatus("awarded", f))
            t == Cardinality(InStatus("submitted", f)) + a
                 + Cardinality(InStatus("rejected", f))
            rate == success_rate(grants, f).success_rate
        IN  t > 0 => /\ 2 * (1000 * a - rate * t) <= t
                     /\ 2 * (rate * t - 1000 * a) <= t

\* C21: a successful apply, reject, start_reporting or close changes, of the
\* whole store, only the opportunity it is called on, and of that only the
\* status, updated_at and, when apply or reject is given non-empty notes, the
\* notes, which become the given text; with empty notes the stored notes stay.
\* Every other field stays, assigned_to too when apply is given one, and so do
\* the other opportunities, the submissions and the notes table.  add_note
\* changes no opportunity.
C21_TransitionFrame ==
    [][ /\ ( /\ IsCall
             /\ last'.op \in {"apply", "reject", "start_reporting", "close"}
             /\ last'.ret.kind = "Grant" )
           => LET i == CHOOSE k \in DOMAIN grants : grants[k].id = last'.gid
                  given == IF last'.op \in {"apply", "reject"}
                           THEN last'.args.notes ELSE ""
              IN  /\ grants' = [grants EXCEPT ![i] =
                                  [@ EXCEPT !.status = TargetStatus[last'.op],
                                            !.updated_at = grants'[i].updated_at,
                                            !.notes = IF given # "" THEN given ELSE @]]
                  /\ submissions' = submissions
                  /\ grant_notes' = grant_notes
        /\ (IsCall /\ last'.op = "add_note") => grants' = grants ]_vars

\* apply with empty notes and an assigned_to argument has just been called on
\* an opportunity whose notes the reject before it had set: the notes are
\* still those of the reject and assigned_to is not the argument.
C21_Witness ==
    /\ last.op = "apply" /\ last.ret.kind = "Grant"
    /\ last.args = [notes |-> "", assigned_to |-> "carol"]
    /\ RowOf(grants, last.gid).notes = "n2"
    /\ RowOf(grants, last.gid).assigned_to # "carol"
    /\ RowOf(grants, last.gid).status = "applying"

\* C22: identify stores the time of the call as created_at and as updated_at;
\* a successful apply, submit, award, reject, start_reporting or close sets
\* updated_at to the time of the transition, in the step that sets the status;
\* no step changes a row without setting its updated_at to the time of the
\* step, and none changes created_at.  So, the clock never going back,
\* updated_at never decreases and is never before created_at.
C22_Timestamps ==
    [][ /\ (IsCall /\ last'.op = "identify" /\ last'.ret.kind = "Grant")
           => /\ Len(grants') = Len(grants) + 1
              /\ grants'[Len(grants')].created_at = clock
              /\ grants'[Len(grants')].updated_at = clock
        /\ (IsCall /\ last'.op \in DOMAIN TargetStatus /\ last'.ret.kind = "Grant")
           => /\ RowOf(grants', last'.gid).updated_at = clock'
              /\ RowOf(grants', last'.gid).status = TargetStatus[last'.op]
              /\ last'.ret.val.updated_at = clock'
        /\ \A i \in DOMAIN grants :
              /\ grants'[i].created_at = grants[i].created_at
              /\ grants'[i].updated_at >= grants[i].updated_at
              /\ grants'[i] # grants[i] => grants'[i].updated_at = clock'
        /\ \A i \in DOMAIN grants' :
              grants'[i].updated_at >= grants'[i].created_at ]_vars

\* A transition has just been made at a later time than the opportunity was
\* identified: updated_at is that time and created_at the earlier one.
C22_Witness ==
    /\ last.op \in DOMAIN TargetStatus /\ last.ret.kind = "Grant"
    /\ clock > 0
    /\ RowOf(grants, last.gid).updated_at = clock
    /\ RowOf(grants, last.gid).created_at < clock
====
